---- MODULE Spec2Model ----
(***************************************************************************)
(* Model of the PDF text-cleaning pipeline of booktures2.0:                *)
(*   backend/services/ingest/pdf_service.py  (PDFService)                  *)
(*   backend/api/routes.py                   (upload_pdf)                  *)
(*                                                                         *)
(* A string is a sequence of character codes (ASCII code points), so that  *)
(* str.strip, str.lower, str.splitlines and the regular expressions are    *)
(* computed character by character as Python computes them.                *)
(***************************************************************************)
EXTENDS Integers, Sequences, FiniteSets, TLC

VARIABLES
    ENABLE_TEXT_PREPROCESSING, \* module-level flag, fixed at import
    upload,             \* per request: the uploaded file
    pc,                 \* per request: position inside upload_pdf
    raw_pages,          \* per request: extract_text_by_page's raw_pages
    page_lines,         \* per request: _preprocess_pages' page_lines
    header_counts,      \* per request: _preprocess_pages' header_counts
    footer_counts,      \* per request: _preprocess_pages' footer_counts
    recurring_headers,  \* per request: _preprocess_pages' recurring_headers
    recurring_footers,  \* per request: _preprocess_pages' recurring_footers
    idx,                \* per request: loop index of the running loop
    cleaned_pages,      \* per request: _preprocess_pages' cleaned_pages
    positions,          \* per request: logical positions handed to _is_noise_page
    pages_data,         \* per request: upload_pdf's pages_data
    response,           \* per request: upload_pdf's HTTP outcome
    fn_pc,              \* unit call of one method: its position
    fn_args,            \* unit call of one method: its arguments
    fn_ret              \* unit call of one method: its return values

vars == <<ENABLE_TEXT_PREPROCESSING, upload, pc, raw_pages, page_lines,
          header_counts, footer_counts, recurring_headers, recurring_footers,
          idx, cleaned_pages, positions, pages_data, response,
          fn_pc, fn_args, fn_ret>>

reqVars == <<ENABLE_TEXT_PREPROCESSING, upload, pc, raw_pages, page_lines,
             header_counts, footer_counts, recurring_headers, recurring_footers,
             idx, cleaned_pages, positions, pages_data, response>>

fnVars == <<fn_pc, fn_args, fn_ret>>

-----------------------------------------------------------------------------
(* Bounds of the model.                                                     *)

\* longest line, in characters, handed to _normalize_line on its own
MaxLineLen == 5
\* most lines of a line list handed to _strip_recurring_edges on its own
MaxLines == 4
\* greatest logical position handed to _is_noise_page on its own
MaxPos == 20
\* most pages of a document whose pages are enumerated freely
MaxPages == 3
\* most pages of a patterned (long) document
MaxLong == 20
\* most pages of each of two documents processed at the same time
MaxConcPages == 3

-----------------------------------------------------------------------------
(* Characters and Python's string primitives.                               *)

\* str.isspace(): the characters str.strip() trims and the regex \s matches
IsSpace(c) == c \in {9, 10, 11, 12, 13, 28, 29, 30, 31, 32, 133, 160}

\* the line boundaries of str.splitlines()
IsLineBreak(c) == c \in {10, 11, 12, 13, 28, 29, 30, 133}

\* str.lower() on one character
LowerChar(c) == IF c \in 65..90 THEN c + 32 ELSE c

\* str.lower()
Lower(s) == [i \in 1..Len(s) |-> LowerChar(s[i])]

RECURSIVE FirstNonSpace(_, _)
\* index of the first non-whitespace character at or after i, Len(s)+1 if none
FirstNonSpace(s, i) ==
    IF i > Len(s) THEN i
    ELSE IF IsSpace(s[i]) THEN FirstNonSpace(s, i + 1) ELSE i

RECURSIVE LastNonSpace(_, _)
\* index of the last non-whitespace character at or before i, 0 if none
LastNonSpace(s, i) ==
    IF i < 1 THEN 0
    ELSE IF IsSpace(s[i]) THEN LastNonSpace(s, i - 1) ELSE i

\* str.strip()
Strip(s) ==
    LET a == FirstNonSpace(s, 1)
    IN  IF a > Len(s) THEN <<>> ELSE SubSeq(s, a, LastNonSpace(s, Len(s)))

\* re.sub(r"\s+", " ", s): every maximal run of whitespace becomes one space
CollapseWhitespace(s) ==
    LET keep == SelectSeq([i \in 1..Len(s) |-> i],
                          LAMBDA i : ~IsSpace(s[i]) \/ i = 1 \/ ~IsSpace(s[i - 1]))
    IN  [k \in 1..Len(keep) |-> IF IsSpace(s[keep[k]]) THEN 32 ELSE s[keep[k]]]

\* the class [a-z0-9 ]
IsKeyChar(c) == c \in 97..122 \/ c \in 48..57 \/ c = 32

\* re.sub(r"[^a-z0-9 ]", "", s)
RemoveNonKeyChars(s) == SelectSeq(s, IsKeyChar)

\* PDFService._normalize_line
NormalizeLine(line) ==
    Strip(RemoveNonKeyChars(CollapseWhitespace(Lower(Strip(line)))))

\* the class [a-zA-Z']
IsWordChar(c) == c \in 97..122 \/ c \in 65..90 \/ c = 39

\* len(re.findall(r"[a-zA-Z']+", s)): one match per maximal run of the class
CountWords(s) ==
    Cardinality({i \in 1..Len(s) :
                    IsWordChar(s[i]) /\ (i = 1 \/ ~IsWordChar(s[i - 1]))})

\* kw in s
Contains(kw, s) ==
    \E i \in 1..(Len(s) - Len(kw) + 1) : SubSeq(s, i, i + Len(kw) - 1) = kw

\* the ends of the line boundaries of s (\r\n is one boundary, ending at \n)
BreakEnds(s) ==
    {i \in 1..Len(s) :
        IsLineBreak(s[i]) /\ ~(s[i] = 13 /\ i < Len(s) /\ s[i + 1] = 10)}

\* the first character of the line boundary that ends at e
BreakStart(s, e) == IF s[e] = 10 /\ e > 1 /\ s[e - 1] = 13 THEN e - 1 ELSE e

\* the elements of a finite set of integers in increasing order
SortedSeq(S) ==
    [k \in 1..Cardinality(S) |->
        CHOOSE p \in S : Cardinality({q \in S : q <= p}) = k]

\* str.splitlines(): the segments between line boundaries; a boundary at the
\* very end of the text opens no further line
SplitLines(s) ==
    LET ends   == BreakEnds(s)
        starts == SortedSeq({p \in {1} \cup {e + 1 : e \in ends} : p <= Len(s)})
        stop(p) == LET later == {e \in ends : e >= p}
                   IN  IF later = {} THEN Len(s)
                       ELSE BreakStart(s, CHOOSE e \in later :
                                               \A f \in later : e <= f) - 1
    IN  [k \in 1..Len(starts) |-> SubSeq(s, starts[k], stop(starts[k]))]

\* [ln.strip() for ln in text.splitlines() if ln.strip()]
NonBlankLines(text) ==
    LET stripped == LET ls == SplitLines(text)
                    IN  [k \in 1..Len(ls) |-> Strip(ls[k])]
    IN  SelectSeq(stripped, LAMBDA ln : ln # <<>>)

RECURSIVE JoinLines(_)
\* "\n".join(lines)
JoinLines(lines) ==
    IF lines = <<>> THEN <<>>
    ELSE IF Len(lines) = 1 THEN lines[1]
    ELSE lines[1] \o <<10>> \o JoinLines(Tail(lines))


-----------------------------------------------------------------------------
(* PDFService's pure methods.                                               *)

RECURSIVE PopHeaders(_, _)
\* while cleaned and self._normalize_line(cleaned[0]) in recurring_headers
PopHeaders(cleaned, headers) ==
    IF cleaned # <<>> /\ NormalizeLine(cleaned[1]) \in headers
    THEN PopHeaders(Tail(cleaned), headers)
    ELSE cleaned

RECURSIVE PopFooters(_, _)
\* while cleaned and self._normalize_line(cleaned[-1]) in recurring_footers
PopFooters(cleaned, footers) ==
    IF cleaned # <<>> /\ NormalizeLine(cleaned[Len(cleaned)]) \in footers
    THEN PopFooters(SubSeq(cleaned, 1, Len(cleaned) - 1), footers)
    ELSE cleaned

\* _strip_recurring_edges with each while written as an if: one line per edge
StripOneLinePerEdge(lines, headers, footers) ==
    LET h == IF lines # <<>> /\ NormalizeLine(lines[1]) \in headers
             THEN Tail(lines) ELSE lines
    IN  IF h # <<>> /\ NormalizeLine(h[Len(h)]) \in footers
        THEN SubSeq(h, 1, Len(h) - 1) ELSE h

\* PDFService._strip_recurring_edges
StripRecurringEdges(lines, headers, footers) ==
    IF lines = <<>> THEN lines
    ELSE PopFooters(PopHeaders(lines, headers), footers)

\* front_matter_keywords
FrontMatterKeywords ==
    <<  <<112, 114, 101, 102, 97, 99, 101>>,  \* preface
        <<97, 98, 111, 117, 116, 32, 116, 104, 101, 32, 97, 117, 116, 104, 111, 114>>,  \* about the author
        <<99, 111, 112, 121, 114, 105, 103, 104, 116>>,  \* copyright
        <<97, 108, 108, 32, 114, 105, 103, 104, 116, 115, 32, 114, 101, 115, 101, 114, 118, 101, 100>>,  \* all rights reserved
        <<116, 97, 98, 108, 101, 32, 111, 102, 32, 99, 111, 110, 116, 101, 110, 116, 115>>,  \* table of contents
        <<99, 111, 110, 116, 101, 110, 116, 115>>,  \* contents
        <<97, 99, 107, 110, 111, 119, 108, 101, 100, 103>>,  \* acknowledg
        <<100, 101, 100, 105, 99, 97, 116, 105, 111, 110>>,  \* dedication
        <<105, 115, 98, 110>>,  \* isbn
        <<112, 117, 98, 108, 105, 115, 104, 101, 100, 32, 98, 121>>,  \* published by
        <<105, 110, 100, 101, 120>> >>  \* index

\* page.get("text", "")
PageText(page) == IF "text" \in DOMAIN page THEN page.text ELSE <<>>

\* sum(1 for kw in front_matter_keywords if kw in lowered)
KeywordHits(lowered) ==
    Cardinality({k \in 1..Len(FrontMatterKeywords) :
                    Contains(FrontMatterKeywords[k], lowered)})

\* _is_noise_page with the sparse-page test written word_count <= 20
IsNoisePageSparseAt20(page, logical_position) ==
    LET text       == Strip(PageText(page))
        lowered    == Lower(text)
        word_count == CountWords(lowered)
    IN  IF text = <<>> THEN TRUE
        ELSE IF word_count <= 20 THEN TRUE
        ELSE IF logical_position <= 15 /\ KeywordHits(lowered) >= 1
                /\ word_count < 220 THEN TRUE
        ELSE FALSE

\* _is_noise_page without the sparse-page test (if word_count < 20)
IsNoisePageNoSparseRule(page, logical_position) ==
    LET text       == Strip(PageText(page))
        lowered    == Lower(text)
        word_count == CountWords(lowered)
    IN  IF text = <<>> THEN TRUE
        ELSE IF logical_position <= 15 /\ KeywordHits(lowered) >= 1
                /\ word_count < 220 THEN TRUE
        ELSE FALSE

\* PDFService._is_noise_page
IsNoisePage(page, logical_position) ==
    LET text       == Strip(PageText(page))
        lowered    == Lower(text)
        word_count == CountWords(lowered)
    IN  IF text = <<>> THEN TRUE
        ELSE IF word_count < 20 THEN TRUE
        ELSE IF logical_position <= 15 /\ KeywordHits(lowered) >= 1
                /\ word_count < 220 THEN TRUE
        ELSE FALSE

-----------------------------------------------------------------------------
(* Texts the inputs are drawn from.                                         *)

\* "Chapter Title"
ChapterTitle == <<67, 104, 97, 112, 116, 101, 114, 32, 84, 105, 116, 108, 101>>
\* "CHAPTER  TITLE!"
ChapterTitleLoud == <<67, 72, 65, 80, 84, 69, 82, 32, 32, 84, 73, 84, 76, 69, 33>>
\* "Page Footer"
PageFooter == <<80, 97, 103, 101, 32, 70, 111, 111, 116, 101, 114>>
\* "***"
Rule == <<42, 42, 42>>
\* "Table of Contents"
TocHeading == <<84, 97, 98, 108, 101, 32, 111, 102, 32, 67, 111, 110, 116, 101, 110, 116, 115>>
\* "index"
IndexWord == <<105, 110, 100, 101, 120>>
\* "well-known"
WellKnown == <<119, 101, 108, 108, 45, 107, 110, 111, 119, 110>>
\* "it's"
Its == <<105, 116, 39, 115>>
\* "word"
Word == <<119, 111, 114, 100>>
\* "Page 12"
Page12 == <<80, 97, 103, 101, 32, 49, 50>>
\* "chapter title"
ChapterTitleKey == <<99, 104, 97, 112, 116, 101, 114, 32, 116, 105, 116, 108, 101>>
\* "page footer"
PageFooterKey == <<112, 97, 103, 101, 32, 102, 111, 111, 116, 101, 114>>

\* n copies of w separated by single spaces
Repeat(w, n) ==
    IF n = 0 THEN <<>>
    ELSE [i \in 1..(n * (Len(w) + 1) - 1) |->
            IF i % (Len(w) + 1) = 0 THEN 32 ELSE w[i % (Len(w) + 1)]]

\* all sequences over A of length at most n
SeqUpTo(A, n) == UNION {[1..k -> A] : k \in 0..n}

\* no upload is in progress
NoRequests ==
    /\ ENABLE_TEXT_PREPROCESSING = TRUE
    /\ upload = <<>>
    /\ pc = <<>>
    /\ raw_pages = <<>>
    /\ page_lines = <<>>
    /\ header_counts = <<>>
    /\ footer_counts = <<>>
    /\ recurring_headers = <<>>
    /\ recurring_footers = <<>>
    /\ idx = <<>>
    /\ cleaned_pages = <<>>
    /\ positions = <<>>
    /\ pages_data = <<>>
    /\ response = <<>>

-----------------------------------------------------------------------------
(* _normalize_line called on its own, then on its own result.               *)

\* a, b, B, space, tab, hyphen
NormAlphabet == {97, 98, 66, 32, 9, 45}

InitNorm ==
    /\ NoRequests
    /\ fn_pc = "call"
    /\ fn_args \in {[line |-> x] : x \in SeqUpTo(NormAlphabet, MaxLineLen)}
    /\ fn_ret = <<>>

NormalizeOnce ==
    /\ fn_pc = "call"
    /\ fn_ret' = <<NormalizeLine(fn_args.line)>>
    /\ fn_pc' = "once"
    /\ UNCHANGED <<fn_args, reqVars>>

NormalizeAgain ==
    /\ fn_pc = "once"
    /\ fn_ret' = <<fn_ret[1], NormalizeLine(fn_ret[1])>>
    /\ fn_pc' = "twice"
    /\ UNCHANGED <<fn_args, reqVars>>

NextNorm == NormalizeOnce \/ NormalizeAgain

SpecNorm == InitNorm /\ [][NextNorm]_vars

\* C7: normalizing an already-normalized line is a no-op:
\* _normalize_line(_normalize_line(x)) = _normalize_line(x) for every line x.
C7_NormalizeIdempotent ==
    fn_pc = "twice" => fn_ret[2] = fn_ret[1]

\* "a - b" was normalized to "a  b" (two spaces), and that to "a b"
C7_Diverges ==
    /\ fn_pc = "twice"
    /\ fn_args.line = <<97, 32, 45, 32, 98>>
    /\ fn_ret = << <<97, 32, 32, 98>>, <<97, 32, 98>> >>

-----------------------------------------------------------------------------
(* _strip_recurring_edges called on its own.                                *)

StripLines == {ChapterTitleLoud, PageFooter, Word, Rule}

StripKeys == {ChapterTitleKey, PageFooterKey, <<>>}

InitStrip ==
    /\ NoRequests
    /\ fn_pc = "call"
    /\ fn_args \in [lines : SeqUpTo(StripLines, MaxLines),
                    recurring_headers : SUBSET StripKeys,
                    recurring_footers : SUBSET StripKeys]
    /\ fn_ret = <<>>

CallStripRecurringEdges ==
    /\ fn_pc = "call"
    /\ fn_ret' = <<StripRecurringEdges(fn_args.lines, fn_args.recurring_headers,
                                       fn_args.recurring_footers)>>
    /\ fn_pc' = "returned"
    /\ UNCHANGED <<fn_args, reqVars>>

NextStrip == CallStripRecurringEdges

SpecStrip == InitStrip /\ [][NextStrip]_vars

\* the lines i..j of a list form the result of stripping it: everything before i
\* is a header, i (if any line is left) is not, everything after j is a footer,
\* and j (if any line is left) is not
IsStrippedSlice(lines, headers, footers, i, j) ==
    /\ \A k \in 1..(i - 1) : NormalizeLine(lines[k]) \in headers
    /\ i <= Len(lines) => NormalizeLine(lines[i]) \notin headers
    /\ \A k \in (j + 1)..Len(lines) : NormalizeLine(lines[k]) \in footers
    /\ j >= i => NormalizeLine(lines[j]) \notin footers

\* C4: _strip_recurring_edges returns the contiguous slice left after removing
\* the maximal prefix of header lines and then the maximal suffix of footer
\* lines of the remainder; the result is empty, or its first line is no header
\* and its last line is no footer.
C4_StripMaximalEdges ==
    fn_pc = "returned" =>
        LET lines == fn_args.lines
            H     == fn_args.recurring_headers
            F     == fn_args.recurring_footers
            out   == fn_ret[1]
        IN  /\ \E i \in 1..(Len(lines) + 1) : \E j \in (i - 1)..Len(lines) :
                  /\ IsStrippedSlice(lines, H, F, i, j)
                  /\ out = SubSeq(lines, i, j)
            /\ \/ out = <<>>
               \/ /\ NormalizeLine(out[1]) \notin H
                  /\ NormalizeLine(out[Len(out)]) \notin F

\* a page with two stacked header lines and a footer line was stripped to its body
C4_Witness ==
    /\ fn_pc = "returned"
    /\ fn_args.lines = <<ChapterTitleLoud, ChapterTitleLoud, Word, PageFooter>>
    /\ fn_args.recurring_headers = {ChapterTitleKey}
    /\ fn_args.recurring_footers = {PageFooterKey}
    /\ fn_ret[1] = <<Word>>


-----------------------------------------------------------------------------
(* _is_noise_page called on its own.                                        *)

\* the texts handed to _is_noise_page, each with the number of word tokens it
\* is built from and whether a front-matter keyword was written into it
NoiseCatalog ==
    { [text |-> <<>>, words |-> 0, keyword |-> FALSE],
      [text |-> <<32, 10, 9>>, words |-> 0, keyword |-> FALSE],
      [text |-> Repeat(Rule, 25), words |-> 0, keyword |-> FALSE],
      [text |-> Repeat(Word, 19), words |-> 19, keyword |-> FALSE],
      [text |-> Repeat(Word, 20), words |-> 20, keyword |-> FALSE],
      [text |-> Repeat(Page12, 19), words |-> 19, keyword |-> FALSE],
      [text |-> Repeat(WellKnown, 10), words |-> 20, keyword |-> FALSE],
      [text |-> Repeat(Its, 20), words |-> 20, keyword |-> FALSE],
      [text |-> <<32>> \o Repeat(Word, 20) \o <<10>>, words |-> 20, keyword |-> FALSE],
      [text |-> Repeat(Word, 220), words |-> 220, keyword |-> FALSE],
      [text |-> TocHeading \o <<10>> \o Repeat(Word, 16), words |-> 19, keyword |-> TRUE],
      [text |-> TocHeading \o <<10>> \o Repeat(Word, 17), words |-> 20, keyword |-> TRUE],
      [text |-> TocHeading \o <<10>> \o Repeat(Word, 47), words |-> 50, keyword |-> TRUE],
      [text |-> Repeat(Word, 19) \o <<32, 114, 101>> \o IndexWord \o <<101, 100>>,
       words |-> 20, keyword |-> TRUE],
      [text |-> IndexWord \o <<32>> \o Repeat(Word, 218), words |-> 219, keyword |-> TRUE],
      [text |-> IndexWord \o <<32>> \o Repeat(Word, 219), words |-> 220, keyword |-> TRUE] }

\* the 50-word page that contains "Table of Contents"
TocPage50 == TocHeading \o <<10>> \o Repeat(Word, 47)

\* the pages handed to _is_noise_page: one per text, and one without a text
NoisePages ==
    {[page_number |-> 1, text |-> e.text] : e \in NoiseCatalog}
        \cup {[page_number |-> 1]}

InitNoise ==
    /\ NoRequests
    /\ fn_pc = "call"
    /\ fn_args \in [page : NoisePages, logical_position : 1..MaxPos]
    /\ fn_ret = <<>>

CallIsNoisePage ==
    /\ fn_pc = "call"
    /\ fn_ret' = <<IsNoisePage(fn_args.page, fn_args.logical_position)>>
    /\ fn_pc' = "returned"
    /\ UNCHANGED <<fn_args, reqVars>>

NextNoise == CallIsNoisePage

SpecNoise == InitNoise /\ [][NextNoise]_vars

\* C5: _is_noise_page is true exactly when the text has no non-whitespace
\* content, or has fewer than 20 word tokens, or (logical position <= 15 and a
\* front-matter keyword occurs in it and it has fewer than 220 word tokens).
C5_NoiseRule ==
    fn_pc = "returned" =>
        LET text  == PageText(fn_args.page)
            pos   == fn_args.logical_position
            e     == CHOOSE e \in NoiseCatalog : e.text = text
            blank == \A i \in 1..Len(text) : IsSpace(text[i])
        IN  fn_ret[1] = (\/ blank
                         \/ e.words < 20
                         \/ pos <= 15 /\ e.keyword /\ e.words < 220)

\* the 50-word table-of-contents page was classified as noise at position 3
C5_Witness ==
    /\ fn_pc = "returned"
    /\ fn_args.page = [page_number |-> 1, text |-> TocPage50]
    /\ fn_args.logical_position = 3
    /\ fn_ret[1] = TRUE

-----------------------------------------------------------------------------
(* upload_pdf: one request, step by step.                                   *)

\* the requests in progress
Requests == DOMAIN pc

\* an empty dict
EmptyDict == [k \in {} |-> 0]

\* counts[key] = counts.get(key, 0) + 1
Increment(counts, key) ==
    [k \in DOMAIN counts \cup {key} |->
        IF k = key
        THEN (IF key \in DOMAIN counts THEN counts[key] ELSE 0) + 1
        ELSE counts[k]]

\* page.extract_text() or ""
TextOrEmpty(extracted) == IF extracted.some THEN extracted.text ELSE <<>>

\* the loop over pdf.pages: one raw page per physical page, text trimmed
RawPages(pages) ==
    [i \in 1..Len(pages) |->
        [page_number |-> i, text |-> Strip(TextOrEmpty(pages[i]))]]

\* the threshold with a floor of 2 instead of 3
RecurringThresholdLow(n) == IF (2 * n) \div 10 > 2 THEN (2 * n) \div 10 ELSE 2

\* recurring_threshold = max(3, int(len(pages) * 0.2))
RecurringThreshold(n) == IF (2 * n) \div 10 > 3 THEN (2 * n) \div 10 ELSE 3

\* {k for k, v in counts.items() if v >= recurring_threshold}
RecurringKeys(counts, threshold) ==
    {k \in DOMAIN counts : counts[k] >= threshold}

\* the position counts the pages kept so far instead of the pages seen so far
KeptCountPosition(i, kept) == Len(kept) + 1

\* logical_position=idx + 1, for the loop index i of enumerate(pages)
LogicalPosition(i, kept) == i + 1

\* upload_pdf up to save_pdf: the file name check and save_pdf's validation
SavePdf(r) ==
    /\ pc[r] = "received"
    /\ IF ~upload[r].has_filename
       THEN /\ response' = [response EXCEPT ![r] =
                               [status |-> 400, code |-> "INVALID_FILE", total_pages |-> 0]]
            /\ pc' = [pc EXCEPT ![r] = "done"]
       ELSE IF upload[r].too_large \/ ~upload[r].pdf_extension \/ ~upload[r].pdf_signature
       THEN /\ response' = [response EXCEPT ![r] =
                               [status |-> 400, code |-> "VALIDATION_ERROR", total_pages |-> 0]]
            /\ pc' = [pc EXCEPT ![r] = "done"]
       ELSE /\ pc' = [pc EXCEPT ![r] = "extract"]
            /\ UNCHANGED response
    /\ UNCHANGED <<ENABLE_TEXT_PREPROCESSING, upload, raw_pages, page_lines,
                   header_counts, footer_counts, recurring_headers,
                   recurring_footers, idx, cleaned_pages, positions, pages_data,
                   fnVars>>

\* extract_text_by_page without the flag test: the raw pages are always cleaned
ExtractThenAlwaysPreprocess(r) ==
    /\ pc[r] = "extract"
    /\ IF ~upload[r].readable
       THEN /\ response' = [response EXCEPT ![r] =
                               [status |-> 500, code |-> "UPLOAD_FAILED", total_pages |-> 0]]
            /\ pc' = [pc EXCEPT ![r] = "done"]
            /\ UNCHANGED raw_pages
       ELSE /\ raw_pages' = [raw_pages EXCEPT ![r] = RawPages(upload[r].pages)]
            /\ pc' = [pc EXCEPT ![r] = "preprocess"]
            /\ UNCHANGED response
    /\ UNCHANGED <<ENABLE_TEXT_PREPROCESSING, upload, page_lines, header_counts,
                   footer_counts, recurring_headers, recurring_footers, idx,
                   cleaned_pages, positions, pages_data, fnVars>>

\* extract_text_by_page: the raw pages, returned as they are when the flag is off
ExtractTextByPage(r) ==
    /\ pc[r] = "extract"
    /\ IF ~upload[r].readable
       THEN /\ response' = [response EXCEPT ![r] =
                               [status |-> 500, code |-> "UPLOAD_FAILED", total_pages |-> 0]]
            /\ pc' = [pc EXCEPT ![r] = "done"]
            /\ UNCHANGED <<raw_pages, pages_data>>
       ELSE /\ raw_pages' = [raw_pages EXCEPT ![r] = RawPages(upload[r].pages)]
            /\ IF ~ENABLE_TEXT_PREPROCESSING
               THEN /\ pages_data' = [pages_data EXCEPT ![r] = raw_pages'[r]]
                    /\ pc' = [pc EXCEPT ![r] = "respond"]
               ELSE /\ pc' = [pc EXCEPT ![r] = "preprocess"]
                    /\ UNCHANGED pages_data
            /\ UNCHANGED response
    /\ UNCHANGED <<ENABLE_TEXT_PREPROCESSING, upload, page_lines, header_counts,
                   footer_counts, recurring_headers, recurring_footers, idx,
                   cleaned_pages, positions, fnVars>>

\* _preprocess_pages: the empty-document return and the locals of the call
PreprocessBegin(r) ==
    /\ pc[r] = "preprocess"
    /\ IF raw_pages[r] = <<>>
       THEN /\ pages_data' = [pages_data EXCEPT ![r] = raw_pages[r]]
            /\ pc' = [pc EXCEPT ![r] = "respond"]
            /\ UNCHANGED <<header_counts, footer_counts, page_lines, idx>>
       ELSE /\ header_counts' = [header_counts EXCEPT ![r] = EmptyDict]
            /\ footer_counts' = [footer_counts EXCEPT ![r] = EmptyDict]
            /\ page_lines' = [page_lines EXCEPT ![r] = <<>>]
            /\ idx' = [idx EXCEPT ![r] = 0]
            /\ pc' = [pc EXCEPT ![r] = "count"]
            /\ UNCHANGED pages_data
    /\ UNCHANGED <<ENABLE_TEXT_PREPROCESSING, upload, raw_pages, recurring_headers,
                   recurring_footers, cleaned_pages, positions, response, fnVars>>

\* the counting loop with the two count tables held by the shared PDFService
\* instance: every request in progress sees the increments
CountPageShared(r) ==
    /\ pc[r] = "count"
    /\ idx[r] < Len(raw_pages[r])
    /\ LET lines == NonBlankLines(raw_pages[r][idx[r] + 1].text)
           head  == NormalizeLine(lines[1])
           tail  == NormalizeLine(lines[Len(lines)])
       IN  /\ page_lines' = [page_lines EXCEPT ![r] = Append(@, lines)]
           /\ header_counts' =
                 IF lines # <<>> /\ head # <<>>
                 THEN [q \in Requests |-> Increment(header_counts[q], head)]
                 ELSE header_counts
           /\ footer_counts' =
                 IF lines # <<>> /\ tail # <<>>
                 THEN [q \in Requests |-> Increment(footer_counts[q], tail)]
                 ELSE footer_counts
    /\ idx' = [idx EXCEPT ![r] = @ + 1]
    /\ UNCHANGED <<ENABLE_TEXT_PREPROCESSING, upload, pc, raw_pages,
                   recurring_headers, recurring_footers, cleaned_pages, positions,
                   pages_data, response, fnVars>>

\* _preprocess_pages: one iteration of the counting loop (for page in pages)
CountPage(r) ==
    /\ pc[r] = "count"
    /\ idx[r] < Len(raw_pages[r])
    /\ LET lines == NonBlankLines(raw_pages[r][idx[r] + 1].text)
           head  == NormalizeLine(lines[1])
           tail  == NormalizeLine(lines[Len(lines)])
       IN  /\ page_lines' = [page_lines EXCEPT ![r] = Append(@, lines)]
           /\ header_counts' =
                 IF lines # <<>> /\ head # <<>>
                 THEN [header_counts EXCEPT ![r] = Increment(@, head)]
                 ELSE header_counts
           /\ footer_counts' =
                 IF lines # <<>> /\ tail # <<>>
                 THEN [footer_counts EXCEPT ![r] = Increment(@, tail)]
                 ELSE footer_counts
    /\ idx' = [idx EXCEPT ![r] = @ + 1]
    /\ UNCHANGED <<ENABLE_TEXT_PREPROCESSING, upload, pc, raw_pages,
                   recurring_headers, recurring_footers, cleaned_pages, positions,
                   pages_data, response, fnVars>>

\* _preprocess_pages: the threshold and the two recurring key sets
ComputeRecurring(r) ==
    /\ pc[r] = "count"
    /\ idx[r] = Len(raw_pages[r])
    /\ LET recurring_threshold == RecurringThreshold(Len(raw_pages[r]))
       IN  /\ recurring_headers' = [recurring_headers EXCEPT ![r] =
                  RecurringKeys(header_counts[r], recurring_threshold)]
           /\ recurring_footers' = [recurring_footers EXCEPT ![r] =
                  RecurringKeys(footer_counts[r], recurring_threshold)]
    /\ cleaned_pages' = [cleaned_pages EXCEPT ![r] = <<>>]
    /\ idx' = [idx EXCEPT ![r] = 0]
    /\ pc' = [pc EXCEPT ![r] = "clean"]
    /\ UNCHANGED <<ENABLE_TEXT_PREPROCESSING, upload, raw_pages, page_lines,
                   header_counts, footer_counts, positions, pages_data, response,
                   fnVars>>

\* the cleaning loop with the kept page inserted at the front of cleaned_pages
CleanPagePrepending(r) ==
    /\ pc[r] = "clean"
    /\ idx[r] < Len(raw_pages[r])
    /\ LET page      == raw_pages[r][idx[r] + 1]
           lines     == StripRecurringEdges(page_lines[r][idx[r] + 1],
                                            recurring_headers[r], recurring_footers[r])
           text      == Strip(JoinLines(lines))
           candidate == [page_number |-> page.page_number, text |-> text]
           position  == LogicalPosition(idx[r], cleaned_pages[r])
       IN  /\ positions' = [positions EXCEPT ![r] = Append(@, position)]
           /\ cleaned_pages' =
                 IF IsNoisePage(candidate, position) THEN cleaned_pages
                 ELSE IF text = <<>> THEN cleaned_pages
                 ELSE [cleaned_pages EXCEPT ![r] = <<candidate>> \o @]
    /\ idx' = [idx EXCEPT ![r] = @ + 1]
    /\ UNCHANGED <<ENABLE_TEXT_PREPROCESSING, upload, pc, raw_pages, page_lines,
                   header_counts, footer_counts, recurring_headers,
                   recurring_footers, pages_data, response, fnVars>>

\* _preprocess_pages: one iteration of the cleaning loop
\* (for idx, page in enumerate(pages))
CleanPage(r) ==
    /\ pc[r] = "clean"
    /\ idx[r] < Len(raw_pages[r])
    /\ LET page      == raw_pages[r][idx[r] + 1]
           lines     == StripRecurringEdges(page_lines[r][idx[r] + 1],
                                            recurring_headers[r], recurring_footers[r])
           text      == Strip(JoinLines(lines))
           candidate == [page_number |-> page.page_number, text |-> text]
           position  == LogicalPosition(idx[r], cleaned_pages[r])
       IN  /\ positions' = [positions EXCEPT ![r] = Append(@, position)]
           /\ cleaned_pages' =
                 IF IsNoisePage(candidate, position) THEN cleaned_pages
                 ELSE IF text = <<>> THEN cleaned_pages
                 ELSE [cleaned_pages EXCEPT ![r] = Append(@, candidate)]
    /\ idx' = [idx EXCEPT ![r] = @ + 1]
    /\ UNCHANGED <<ENABLE_TEXT_PREPROCESSING, upload, pc, raw_pages, page_lines,
                   header_counts, footer_counts, recurring_headers,
                   recurring_footers, pages_data, response, fnVars>>

\* the return of _preprocess_pages without the fallback: return cleaned_pages
ReturnCleanedNoFallback(r) ==
    /\ pc[r] = "clean"
    /\ idx[r] = Len(raw_pages[r])
    /\ pages_data' = [pages_data EXCEPT ![r] = cleaned_pages[r]]
    /\ pc' = [pc EXCEPT ![r] = "respond"]
    /\ UNCHANGED <<ENABLE_TEXT_PREPROCESSING, upload, raw_pages, page_lines,
                   header_counts, footer_counts, recurring_headers,
                   recurring_footers, idx, cleaned_pages, positions, response,
                   fnVars>>

\* _preprocess_pages: return cleaned_pages or pages
ReturnCleaned(r) ==
    /\ pc[r] = "clean"
    /\ idx[r] = Len(raw_pages[r])
    /\ pages_data' = [pages_data EXCEPT ![r] =
           IF cleaned_pages[r] # <<>> THEN cleaned_pages[r] ELSE raw_pages[r]]
    /\ pc' = [pc EXCEPT ![r] = "respond"]
    /\ UNCHANGED <<ENABLE_TEXT_PREPROCESSING, upload, raw_pages, page_lines,
                   header_counts, footer_counts, recurring_headers,
                   recurring_footers, idx, cleaned_pages, positions, response,
                   fnVars>>

\* upload_pdf after extract_text_by_page: the empty-content error, or the Book
\* and its Page rows
Respond(r) ==
    /\ pc[r] = "respond"
    /\ response' = [response EXCEPT ![r] =
           IF pages_data[r] = <<>>
           THEN [status |-> 400, code |-> "EMPTY_EXTRACTED_CONTENT", total_pages |-> 0]
           ELSE [status |-> 200, code |-> "OK", total_pages |-> Len(pages_data[r])]]
    /\ pc' = [pc EXCEPT ![r] = "done"]
    /\ UNCHANGED <<ENABLE_TEXT_PREPROCESSING, upload, raw_pages, page_lines,
                   header_counts, footer_counts, recurring_headers,
                   recurring_footers, idx, cleaned_pages, positions, pages_data,
                   fnVars>>

Next ==
    \/ \E r \in Requests : SavePdf(r)
    \/ \E r \in Requests : ExtractTextByPage(r)
    \/ \E r \in Requests : PreprocessBegin(r)
    \/ \E r \in Requests : CountPage(r)
    \/ \E r \in Requests : ComputeRecurring(r)
    \/ \E r \in Requests : CleanPage(r)
    \/ \E r \in Requests : ReturnCleaned(r)
    \/ \E r \in Requests : Respond(r)

-----------------------------------------------------------------------------
(* _preprocess_pages as one function of its argument.                       *)

RECURSIVE EdgeCounts(_, _, _)
\* header_counts (last = FALSE) or footer_counts (last = TRUE) after the first
\* n iterations of the counting loop over the line lists pl
EdgeCounts(pl, n, last) ==
    IF n = 0 THEN EmptyDict
    ELSE LET prev == EdgeCounts(pl, n - 1, last)
             key  == NormalizeLine(IF last THEN pl[n][Len(pl[n])] ELSE pl[n][1])
         IN  IF pl[n] # <<>> /\ key # <<>> THEN Increment(prev, key) ELSE prev

RECURSIVE KeptPages(_, _, _, _, _)
\* cleaned_pages after the first n iterations of the cleaning loop
KeptPages(pages, pl, headers, footers, n) ==
    IF n = 0 THEN <<>>
    ELSE LET prev      == KeptPages(pages, pl, headers, footers, n - 1)
             lines     == StripRecurringEdges(pl[n], headers, footers)
             text      == Strip(JoinLines(lines))
             candidate == [page_number |-> pages[n].page_number, text |-> text]
         IN  IF IsNoisePage(candidate, LogicalPosition(n - 1, prev)) THEN prev
             ELSE IF text = <<>> THEN prev
             ELSE Append(prev, candidate)

\* PDFService._preprocess_pages
PreprocessPages(pages) ==
    IF pages = <<>> THEN pages
    ELSE LET pl        == [i \in 1..Len(pages) |-> NonBlankLines(pages[i].text)]
             threshold == RecurringThreshold(Len(pages))
             headers   == RecurringKeys(EdgeCounts(pl, Len(pages), FALSE), threshold)
             footers   == RecurringKeys(EdgeCounts(pl, Len(pages), TRUE), threshold)
             kept      == KeptPages(pages, pl, headers, footers, Len(pages))
         IN  IF kept # <<>> THEN kept ELSE pages

-----------------------------------------------------------------------------
(* Documents.                                                               *)

\* what page.extract_text() returned: a text, or None
Extracted(t) == [some |-> TRUE, text |-> t]
NoText == [some |-> FALSE, text |-> <<>>]

\* "Chapter Title" / 20 words / "Page Footer"
PageFull == ChapterTitle \o <<10>> \o Repeat(Word, 20) \o <<10>> \o PageFooter
\* the same page as rendered elsewhere: " CHAPTER  TITLE!" / 20 words / blank
\* line / "Page Footer", with a trailing line break
PageFullLoud ==
    <<32>> \o ChapterTitleLoud \o <<13, 10>> \o Repeat(Its, 20) \o <<10, 10>>
        \o PageFooter \o <<10>>
\* "Chapter Title" / "Page Footer"
PageEdgesOnly == ChapterTitle \o <<10>> \o PageFooter
\* 20 words on one line
PageOneLine == Repeat(WellKnown, 10)
\* "Chapter Title" / 17 words: 19 word tokens with its header, 17 without
PageSparse == ChapterTitle \o <<10>> \o Repeat(Word, 17)
\* "***" / 20 words / "***"
PageRuled == Rule \o <<10>> \o Repeat(Word, 20) \o <<10>> \o Rule

\* the pages of the documents whose pages are enumerated freely
ShortPages ==
    { NoText, Extracted(PageFull), Extracted(PageFullLoud), Extracted(PageEdgesOnly),
      Extracted(PageOneLine), Extracted(PageSparse) }

\* the lengths of the patterned documents
LongLengths == {5, 15, 16, MaxLong}

\* the two pages a patterned document is made of
LongPairs ==
    { <<Extracted(TocPage50), Extracted(PageFull)>>,
      <<Extracted(PageFull), Extracted(PageSparse)>>,
      <<Extracted(PageEdgesOnly), Extracted(PageRuled)>> }

\* the document of n pages with page a at the positions in S and b elsewhere
Patterned(n, a, b, S) == [i \in 1..n |-> IF i \in S THEN a ELSE b]

\* the patterned documents: a on the first k pages, or a on page k and on the
\* last page
LongDocuments ==
    UNION { { Patterned(n, ab[1], ab[2], 1..k) : k \in 0..n }
              \cup { Patterned(n, ab[1], ab[2], {k, n}) : k \in 1..(n - 1) }
            : <<n, ab>> \in LongLengths \X LongPairs }

Documents == SeqUpTo(ShortPages, MaxPages) \cup LongDocuments

\* an upload that passes every check of upload_pdf and save_pdf
ValidUpload(doc) ==
    [has_filename |-> TRUE, too_large |-> FALSE, pdf_extension |-> TRUE,
     pdf_signature |-> TRUE, readable |-> TRUE, pages |-> doc]

\* uploads that fail one check
InvalidUploads ==
    { [ValidUpload(<<>>) EXCEPT !.has_filename = FALSE],
      [ValidUpload(<<>>) EXCEPT !.too_large = TRUE],
      [ValidUpload(<<>>) EXCEPT !.pdf_extension = FALSE],
      [ValidUpload(<<>>) EXCEPT !.pdf_signature = FALSE],
      [ValidUpload(<<>>) EXCEPT !.readable = FALSE] }

\* the state of the requests as upload_pdf is entered with uploads ups
RequestsReceived(ups) ==
    /\ upload = ups
    /\ pc = [r \in DOMAIN ups |-> "received"]
    /\ raw_pages = [r \in DOMAIN ups |-> <<>>]
    /\ page_lines = [r \in DOMAIN ups |-> <<>>]
    /\ header_counts = [r \in DOMAIN ups |-> EmptyDict]
    /\ footer_counts = [r \in DOMAIN ups |-> EmptyDict]
    /\ recurring_headers = [r \in DOMAIN ups |-> {}]
    /\ recurring_footers = [r \in DOMAIN ups |-> {}]
    /\ idx = [r \in DOMAIN ups |-> 0]
    /\ cleaned_pages = [r \in DOMAIN ups |-> <<>>]
    /\ positions = [r \in DOMAIN ups |-> <<>>]
    /\ pages_data = [r \in DOMAIN ups |-> <<>>]
    /\ response = [r \in DOMAIN ups |->
                      [status |-> 0, code |-> "", total_pages |-> 0]]

NoUnitCall ==
    /\ fn_pc = "none"
    /\ fn_args = <<>>
    /\ fn_ret = <<>>

\* one upload
Init ==
    /\ ENABLE_TEXT_PREPROCESSING \in BOOLEAN
    /\ \E u \in InvalidUploads \cup {ValidUpload(d) : d \in Documents} :
          RequestsReceived(<<u>>)
    /\ NoUnitCall

Spec == Init /\ [][Next]_vars

\* the documents of two uploads handled at the same time
ConcPages == {Extracted(PageFull), Extracted(PageSparse)}

\* two uploads whose steps interleave
InitConc ==
    /\ ENABLE_TEXT_PREPROCESSING = TRUE
    /\ \E d1 \in SeqUpTo(ConcPages, MaxConcPages) :
       \E d2 \in SeqUpTo({Extracted(PageFull)}, MaxConcPages) :
          RequestsReceived(<<ValidUpload(d1), ValidUpload(d2)>>)
    /\ NoUnitCall

SpecConc == InitConc /\ [][Next]_vars


-----------------------------------------------------------------------------
(* Properties of one upload.                                                *)

\* request r passed validation and extraction, and _preprocess_pages ran on it
\* up to its return
Preprocessed(r) ==
    /\ pc[r] \in {"respond", "done"}
    /\ response[r].code \in {"", "OK", "EMPTY_EXTRACTED_CONTENT"}
    /\ ENABLE_TEXT_PREPROCESSING

\* out is in along a strictly increasing choice of indices, page_number by
\* page_number; the raw pages are numbered 1, 2, ..., so the index of a
\* returned page is its page_number
IsSubsequenceByNumber(out, in) ==
    /\ Len(out) <= Len(in)
    /\ \A k \in 1..Len(out) :
          /\ out[k].page_number \in 1..Len(in)
          /\ in[out[k].page_number].page_number = out[k].page_number
    /\ \A k \in 1..(Len(out) - 1) : out[k].page_number < out[k + 1].page_number

\* C1: the list _preprocess_pages returns is a subsequence of its input with
\* respect to page_number: never longer, every returned page_number occurs in
\* the input, and the relative order is the input's (no reordering, no
\* duplication). It holds of cleaned_pages all along the cleaning loop too.
C1_CleanIsSubsequence ==
    \A r \in Requests :
        /\ Preprocessed(r) => IsSubsequenceByNumber(pages_data[r], raw_pages[r])
        /\ pc[r] = "clean" => IsSubsequenceByNumber(cleaned_pages[r], raw_pages[r])

\* at least two pages were kept and at least one was removed
C1_Witness ==
    \E r \in Requests :
        /\ Preprocessed(r)
        /\ Len(pages_data[r]) >= 2
        /\ Len(pages_data[r]) < Len(raw_pages[r])
        /\ pages_data[r] = cleaned_pages[r]

\* C2: _preprocess_pages returns an empty list only for an empty input; when
\* the filter drops every page the result is the original pages with their
\* original text; and upload_pdf answers EMPTY_EXTRACTED_CONTENT only for a
\* document without pages.
C2_NeverEmptiesDocument ==
    \A r \in Requests :
        /\ Preprocessed(r) =>
              /\ pages_data[r] = <<>> => raw_pages[r] = <<>>
              /\ cleaned_pages[r] = <<>> =>
                    pages_data[r] =
                        [i \in 1..Len(upload[r].pages) |->
                            [page_number |-> i,
                             text |-> Strip(TextOrEmpty(upload[r].pages[i]))]]
        /\ response[r].code = "EMPTY_EXTRACTED_CONTENT" => Len(upload[r].pages) = 0

\* every page of a document was dropped, after its recurring header and footer
\* were stripped, and the original pages came back with header and footer
C2_Witness ==
    \E r \in Requests :
        /\ Preprocessed(r)
        /\ pc[r] = "done"
        /\ response[r].code = "OK"
        /\ cleaned_pages[r] = <<>>
        /\ recurring_headers[r] = {ChapterTitleKey}
        /\ Len(pages_data[r]) = 3
        /\ \A i \in 1..3 : pages_data[r][i] = [page_number |-> i, text |-> PageEdgesOnly]

\* the lines of raw page i of request r, blank lines dropped, each trimmed
RawLines(r, i) == NonBlankLines(raw_pages[r][i].text)

\* the keys that are the first (last = FALSE) or last (last = TRUE) non-blank
\* line of at least max(3, floor(n / 5)) of the n pages, the empty key left out
KeysOnEnoughPages(r, last) ==
    LET n       == Len(raw_pages[r])
        lines   == [i \in 1..n |-> RawLines(r, i)]
        lined   == {i \in 1..n : lines[i] # <<>>}
        key     == [i \in lined |->
                       NormalizeLine(IF last THEN lines[i][Len(lines[i])]
                                     ELSE lines[i][1])]
        floor20 == n \div 5
        least   == IF floor20 > 3 THEN floor20 ELSE 3
    IN  {k \in {key[i] : i \in lined} :
            /\ k # <<>>
            /\ Cardinality({i \in lined : key[i] = k}) >= least}

\* C3: the recurring header (footer) key set is exactly the set of non-empty
\* normalized keys that are the first (last) non-blank line of at least
\* max(3, floor(0.2 * n)) of the n pages. It is stated of the two sets as the
\* counting loop leaves them; nothing assigns them afterwards.
C3_RecurringKeySets ==
    \A r \in Requests :
        (pc[r] = "clean" /\ idx[r] = 0) =>
            /\ recurring_headers[r] = KeysOnEnoughPages(r, FALSE)
            /\ recurring_footers[r] = KeysOnEnoughPages(r, TRUE)

\* a 20-page document (threshold 4): a footer on exactly 4 pages is recurring
C3_Witness ==
    \E r \in Requests :
        /\ pc[r] = "clean"
        /\ idx[r] = 0
        /\ Len(raw_pages[r]) = 20
        /\ PageFooterKey \in recurring_footers[r]
        /\ Cardinality({i \in 1..20 : raw_pages[r][i].text = PageFull}) = 4
        /\ \A i \in 1..20 : raw_pages[r][i].text \in {PageFull, PageSparse}

\* the text of raw page i of request r after its recurring edges are stripped
StrippedText(r, i) ==
    Strip(JoinLines(StripRecurringEdges(RawLines(r, i), recurring_headers[r],
                                        recurring_footers[r])))

\* C6: the logical position handed to the noise classifier for the i-th input
\* page is i, whatever was dropped before it; so a page at an input index
\* above 15 is dropped only for being empty or having fewer than 20 words,
\* never by the front-matter keyword rule.
C6_PositionIsLoopCounter ==
    \A r \in Requests :
        pc[r] = "clean" =>
            /\ positions[r] = [i \in 1..idx[r] |-> i]
            /\ \A i \in 16..idx[r] :
                  (\A k \in 1..Len(cleaned_pages[r]) :
                        cleaned_pages[r][k].page_number # i)
                      => LET text == StrippedText(r, i)
                         IN  text = <<>> \/ CountWords(text) < 20

\* the table-of-contents page was dropped as page 2 and kept as page 16, with
\* fewer than 15 pages kept before it
C6_Witness ==
    \E r \in Requests :
        /\ pc[r] = "clean"
        /\ idx[r] = 16
        /\ raw_pages[r][2].text = TocPage50
        /\ raw_pages[r][16].text = TocPage50
        /\ Len(cleaned_pages[r]) = 15
        /\ cleaned_pages[r][1].page_number = 1
        /\ cleaned_pages[r][2].page_number = 3
        /\ cleaned_pages[r][15] = [page_number |-> 16, text |-> TocPage50]

\* C9: with ENABLE_TEXT_PREPROCESSING false, extract_text_by_page returns the
\* raw pages: one per physical page, in order, page_number = index + 1, the
\* trimmed extracted text unchanged.
C9_DisabledIsPassThrough ==
    \A r \in Requests :
        (/\ pc[r] \in {"respond", "done"}
         /\ response[r].code \in {"", "OK", "EMPTY_EXTRACTED_CONTENT"}
         /\ ~ENABLE_TEXT_PREPROCESSING) =>
            pages_data[r] =
                [i \in 1..Len(upload[r].pages) |->
                    [page_number |-> i,
                     text |-> Strip(TextOrEmpty(upload[r].pages[i]))]]

\* with the flag off, a document came back with its recurring header, a page
\* without text and a sparse page all still in it
C9_Witness ==
    \E r \in Requests :
        /\ ~ENABLE_TEXT_PREPROCESSING
        /\ pc[r] = "done"
        /\ response[r].code = "OK"
        /\ upload[r].pages = <<Extracted(PageFull), NoText, Extracted(PageSparse)>>
        /\ pages_data[r] = << [page_number |-> 1, text |-> PageFull],
                              [page_number |-> 2, text |-> <<>>],
                              [page_number |-> 3, text |-> PageSparse] >>

\* text is the newline-join of a contiguous slice of lines
IsJoinedSlice(text, lines) ==
    \E i \in 1..Len(lines) : \E j \in i..Len(lines) :
        text = JoinLines(SubSeq(lines, i, j))

\* C10: when a page survives filtering, every returned page has non-empty text
\* of at least 20 word tokens that is the newline-join of a contiguous slice of
\* the page's own non-blank trimmed lines; an empty or sparse page is returned
\* only by the fallback, which returns the whole input.
C10_SurvivorsAreSubstantial ==
    \A r \in Requests :
        Preprocessed(r) =>
            /\ cleaned_pages[r] # <<>> =>
                  \A k \in 1..Len(pages_data[r]) :
                      LET p == pages_data[r][k]
                      IN  /\ p.text # <<>>
                          /\ CountWords(p.text) >= 20
                          /\ IsJoinedSlice(p.text, RawLines(r, p.page_number))
            /\ (\E k \in 1..Len(pages_data[r]) :
                    \/ pages_data[r][k].text = <<>>
                    \/ CountWords(pages_data[r][k].text) < 20)
                  => /\ cleaned_pages[r] = <<>>
                     /\ pages_data[r] = raw_pages[r]

\* a sparse page was dropped next to a page that was kept with its header and
\* footer, which do not recur
C10_Witness ==
    \E r \in Requests :
        /\ Preprocessed(r)
        /\ raw_pages[r] = << [page_number |-> 1, text |-> PageSparse],
                             [page_number |-> 2, text |-> PageFull] >>
        /\ pages_data[r] = << [page_number |-> 2, text |-> PageFull] >>

-----------------------------------------------------------------------------
(* Properties of two uploads handled at the same time.                      *)

\* C8: the result of _preprocess_pages on a document depends on that document
\* only: whatever the interleaving with another upload, each call returns what
\* it returns alone, and its recurring key sets are those of its own document.
C8_RequestScoped ==
    \A r \in Requests :
        /\ Preprocessed(r) => pages_data[r] = PreprocessPages(raw_pages[r])
        /\ (pc[r] = "clean" /\ idx[r] = 0) =>
              /\ recurring_headers[r] = KeysOnEnoughPages(r, FALSE)
              /\ recurring_footers[r] = KeysOnEnoughPages(r, TRUE)

\* two uploads are in their cleaning loops at once; the header recurs in one
\* document and not in the other, whose pages keep it
C8_Witness ==
    /\ Requests = {1, 2}
    /\ pc[1] = "clean" /\ pc[2] = "clean"
    /\ idx[1] = 1 /\ idx[2] = 1
    /\ Len(raw_pages[1]) = 2 /\ Len(raw_pages[2]) = 3
    /\ recurring_headers[1] = {}
    /\ recurring_headers[2] = {ChapterTitleKey}
    /\ cleaned_pages[1] = << [page_number |-> 1, text |-> PageFull] >>
    /\ cleaned_pages[2] = << [page_number |-> 1, text |-> Repeat(Word, 20)] >>

====
